---- MODULE Spec2Model ----
(***************************************************************************)
(* The call session bridge of backend/app.py: media_stream_handler with    *)
(* its two relay coroutines receive_from_twilio (carrier -> AI) and        *)
(* send_to_twilio (AI -> carrier), the tool dispatcher execute_function    *)
(* and the ConversationLogger.                                             *)
(*                                                                         *)
(* The two coroutines run on one asyncio event loop: a coroutine gives up  *)
(* the loop only at an await.  One action of the model is the code between *)
(* two awaits.  The carrier and the AI peer are the environment: they      *)
(* choose the events the bridge reads and may close their socket.          *)
(***************************************************************************)
EXTENDS Integers, Sequences, FiniteSets, TLC

\* ---------------------------------------------------------------- bounds
MaxCarrierEvents == 3   \* carrier frames read in one session
MaxAiEvents == 2        \* AI events read in one session
MaxCalls == 1           \* function_call_arguments.done events among them
MaxPairEvents == 3      \* events read by each of two concurrent handlers
MaxRequests == 2        \* HTTP requests answered by the front door
MaxDispatches == 1      \* dispatches made by the dispatcher seen alone
MaxLogCalls == 5        \* calls made to the CallSession logger

\* ------------------------------------------------------------ vocabulary
None == "None"
Sids == {"MZ1"}
Phones == {"+391110002222"}

\* the tools of get_tools_config and a name the dispatcher does not know
RegisteredTools ==
    {"check_slot_availability", "book_spa_slot", "get_latest_appointment", "delete_appointment"}
ToolNames == RegisteredTools \cup {"pay_invoice"}

\* what the arguments field of a function_call_arguments.done event can hold:
\* a JSON object, a JSON object without booking_reference, JSON that is no
\* object, text that is no JSON, JSON null
ArgKinds == {"object", "no_reference", "nonobject", "invalid", "null"}

\* Outcomes of an update of the call_sessions table (TRUE: it is written).
\* The failures of the log store are explored on the conversation tables; an
\* update of call_sessions that raises is swallowed by its except: pass.
CallSessionWrites == {TRUE}

\* what the phone field of the arguments can hold: nothing, or a number that
\* is not the caller's
ArgPhones == {None, "+393330009999"}

\* booking references: the one in the arguments, the one the lookup finds
ArgReference == "SPA-000007"
FoundReference == "SPA-000042"

\* what one call of the booking store can do
StoreOutcomes == {"success", "refused", "empty", "raise"}

VARIABLES
    hpc,                 \* media_stream_handler: "accept","connect","gather","done"
    accepted,            \* websocket.accept() succeeded
    connectAttempts,     \* websockets.connect calls made
    aiSock,              \* "none", "open", "closed"
    aiClosedBy,          \* "none", "peer", "bridge"
    carrierSock,         \* "open", "peerclosed", "closed"
    rpc,                 \* receive_from_twilio: "idle","loop","done"
    spc,                 \* send_to_twilio: "idle","loop","dispatch","send_output","send_create","done"
    stream_sid,
    customer_phone,
    session_initialized,
    curCall,             \* the function call being served by send_to_twilio
    conversations,       \* ConversationLogger.conversations: id -> in-memory log
    dbCreated,           \* rows inserted into the conversations table
    dbEnded,             \* updates of conversations.ended_at that reached the store
    dbTurns,             \* rows of conversation_turns, in insertion order
    dbCalls,             \* rows of function_calls, in insertion order
    aiSent,              \* events the bridge sent on the AI socket, in order
    carrierSent,         \* media frames the bridge wrote to the carrier, in order
    nCarrier,            \* carrier frames read so far
    nAi,                 \* AI events read so far
    nFrames,             \* carrier media frames read so far (frame ids 1..nFrames)
    nCalls,              \* function_call_arguments.done events read so far (call ids)
    callStatus,          \* call_sessions.status of this call
    storeCalls,          \* RPC calls made to the booking store
    storeLog,            \* the RPC calls made to the booking store, with their parameters
    sessions,            \* two concurrent handlers: the closure variables and sockets of each
    web,                 \* the HTTP front door: conversation ids in the store, responses given
    tool,                \* the dispatcher seen alone: rows of call_sessions, dispatches made
    call_log,            \* conversation_logger.py: ConversationLogger.sessions and the calls made
    hist                 \* observations of the run used to state the properties

vars == <<hpc, accepted, connectAttempts, aiSock, aiClosedBy, carrierSock, rpc, spc,
          stream_sid, customer_phone, session_initialized, curCall, conversations,
          dbCreated, dbEnded, dbTurns, dbCalls, aiSent, carrierSent,
          nCarrier, nAi, nFrames, nCalls, hist,
          callStatus,
          storeCalls,
          storeLog,
          sessions,
          web,
          tool,
          call_log>>

\* error is result.get('error'): the text under the "error" key of the
\* result map, None when the map has no such key; late: the dispatch has been
\* running for longer than the deadline of the specification; flag is the
\* value under the result's "available", "success" or "found" key, None when
\* the map has none of them
NoCall == [name |-> None, call_id |-> 0, args |-> None, error |-> None, late |-> FALSE,
           flag |-> None]

\* an entry of ConversationLogger.conversations; present = FALSE: no such key
NoLog == [present |-> FALSE, db_id |-> 0, turn_counter |-> 0, calls |-> 0, ended_at |-> FALSE]
NewLog == [present |-> TRUE, db_id |-> 0, turn_counter |-> 0, calls |-> 0, ended_at |-> FALSE]

Msg(t, i) == [type |-> t, id |-> i]

\* function_output: the conversation.item.create event that carries
\* json.dumps(result); output is the text under "error", None for a map
\* without that key
OutputMsg(call_id, error) == [type |-> "function_call_output", id |-> call_id, output |-> error]

\* Two calls of media_stream_handler that run in the same event loop.  Each
\* call has its own carrier socket, its own AI socket and its own closure
\* variables; conversation_logger and the log store are shared.
Handlers == {1, 2}

\* the stream identifier and the caller of each handler's start events
PairSid == <<"MZ1", "MZ2">>
PairPhone == <<"+391110002222", "+391110003333">>
PairSids == {PairSid[h] : h \in Handlers}

\* rpc: receive_from_twilio of this handler; pending: events that
\* send_to_twilio of this handler has still to send to its AI socket; n: the
\* events this handler has read
NoSession ==
    [stream_sid |-> None, customer_phone |-> None, session_initialized |-> FALSE,
     rpc |-> "loop", aiSent |-> << >>, carrierSent |-> << >>, pending |-> << >>, n |-> 0]

PairSessionsInit == [h \in Handlers |-> NoSession]

\* conversation ids asked for over HTTP
ApiIds == {"MZ1", "MZ9"}

\* stored: the conversation_id values of the rows of the conversations table
WebInit == [stored |-> {}, responses |-> << >>]

\* the call identifiers (CallSid) of the carrier
CallIds == {"CA1", "CA2"}

\* a row of call_sessions; present = FALSE: no such row; booking_id 0: null
NoRow == [present |-> FALSE, phone_number |-> None, status |-> None, booking_id |-> 0]

\* the last dispatch of the dispatcher seen alone; via = None: none yet
NoDispatch == [via |-> None]

\* phase: where the call is ("none", "ringing", "streaming", "over");
\* caller: the From of the call; served: dispatches made
ToolInit ==
    [call_sessions |-> [c \in CallIds |-> NoRow],
     phase |-> [c \in CallIds |-> "none"],
     caller |-> [c \in CallIds |-> None],
     served |-> 0,
     last |-> NoDispatch]

\* None where a time or a duration is expected
NoTime == -1

\* conversation_logger.py: an entry of ConversationLogger.sessions;
\* present = FALSE: no such key
NoCallSession ==
    [present |-> FALSE, phone_number |-> None, start_time |-> NoTime, end_time |-> NoTime,
     duration |-> NoTime, conversation_turns |-> << >>, tool_calls |-> << >>,
     booking_created |-> FALSE, final_status |-> None]

CallLogInit == [sessions |-> [c \in CallIds |-> NoCallSession], calls |-> 0]

HistInit ==
    [framesAfterUpdate |-> {},   \* media frames read after session.update was sent
     stopRunning |-> FALSE,      \* carrier stop read while the session was running
     stopBeforeStart |-> FALSE,  \* carrier stop read before any start
     aiClosedRunning |-> FALSE,  \* AI peer closed while running and carrier open
     carrierClosedRunning |-> FALSE, \* carrier closed without stop while running
     aiEverOpen |-> FALSE,       \* websockets.connect succeeded at least once
     earlyDeltas |-> {},         \* audio deltas read before any start event
     turnsDelivered |-> 0,       \* transcripts with text read while running
     turnAfterEnd |-> FALSE]     \* add_turn was called after ended_at was written

Init ==
    /\ hpc = "accept"
    /\ accepted = FALSE
    /\ connectAttempts = 0
    /\ aiSock = "none"
    /\ aiClosedBy = "none"
    /\ carrierSock = "open"
    /\ rpc = "idle"
    /\ spc = "idle"
    /\ stream_sid = None
    /\ customer_phone = None
    /\ session_initialized = FALSE
    /\ curCall = NoCall
    /\ conversations = [s \in Sids \cup PairSids |-> NoLog]
    /\ dbCreated = 0
    /\ dbEnded = 0
    /\ dbTurns = << >>
    /\ dbCalls = << >>
    /\ aiSent = << >>
    /\ carrierSent = << >>
    /\ nCarrier = 0
    /\ nAi = 0
    /\ nFrames = 0
    /\ nCalls = 0
    /\ hist = HistInit
    /\ call_log = CallLogInit
    /\ tool = ToolInit
    /\ web = WebInit
    /\ sessions = PairSessionsInit
    /\ storeLog = << >>
    /\ storeCalls = 0
    /\ callStatus = "initiated"

\* ------------------------------------------------------ ConversationLogger
\* Every logger method catches all exceptions; ok = FALSE is a write of the
\* log store that raises.

\* create_conversation: the insert comes first, the dict entry after it;
\* db_id is the id of the inserted row
create_conversation(sid, ok) ==
    IF ok
    THEN /\ dbCreated' = dbCreated + 1
         /\ conversations' = [conversations EXCEPT ![sid] = [NewLog EXCEPT !.db_id = dbCreated + 1]]
    ELSE UNCHANGED <<dbCreated, conversations>>

\* end_conversation without the del: the entry stays in the dict
end_conversation_keeps(sid, ok) ==
    IF ~conversations[sid].present
    THEN UNCHANGED <<dbEnded, conversations>>
    ELSE /\ dbEnded' = IF ok THEN dbEnded + 1 ELSE dbEnded
         /\ conversations' = [conversations EXCEPT ![sid].ended_at = TRUE]

\* end_conversation: ended_at is set on the log, then the update, then the del
end_conversation(sid, ok) ==
    IF ~conversations[sid].present
    THEN UNCHANGED <<dbEnded, conversations>>
    ELSE IF ok
         THEN /\ dbEnded' = dbEnded + 1
              /\ conversations' = [conversations EXCEPT ![sid] = NoLog]
         ELSE /\ dbEnded' = dbEnded
              /\ conversations' = [conversations EXCEPT ![sid].ended_at = TRUE]

\* add_turn: the counter and the in-memory list change before the insert
add_turn(sid, role, ok) ==
    IF ~conversations[sid].present
    THEN UNCHANGED <<dbTurns, conversations>>
    ELSE /\ conversations' =
              [conversations EXCEPT ![sid].turn_counter = conversations[sid].turn_counter + 1]
         /\ dbTurns' = IF ok
                       THEN Append(dbTurns, [conversation_id |-> conversations[sid].db_id, role |-> role,
                                             turn_number |-> conversations[sid].turn_counter + 1])
                       ELSE dbTurns

\* add_function_call
add_function_call(sid, call, ok) ==
    IF ~conversations[sid].present
    THEN UNCHANGED <<dbCalls, conversations>>
    ELSE /\ conversations' = [conversations EXCEPT ![sid].calls = conversations[sid].calls + 1]
         /\ dbCalls' = IF ok
                       THEN Append(dbCalls, [conversation_id |-> conversations[sid].db_id, call_id |-> call.call_id,
                                             function_name |-> call.name,
                                             success |-> (call.error = None)])
                       ELSE dbCalls

\* supabase.table('call_sessions').update({'status': status}) inside
\* try/except: pass; ok = FALSE is an update that raises
update_call_session(status, ok) ==
    callStatus' = IF ok THEN status ELSE callStatus

\* ------------------------------------------------------- execute_function
\* The result map, by the text under its "error" key (None: no such key), and
\* the number of RPC calls made to the booking store.  A tool that reads its
\* arguments calls arguments.get, which raises on JSON that is no object; the
\* except clause turns every exception into {"error": "System error: ..."}.
\* A store that answers with a status other than success, or with no data,
\* gives a map with available, success or found set to False and no "error".
ReadsArguments(name) == name \in {"check_slot_availability", "book_spa_slot", "delete_appointment"}

SystemError == "System error"

\* one supabase.rpc(...).execute(): the procedure, its phone parameter (None
\* for check_slot_availability, which has none) and its p_booking_reference
Rpc(name, phone, reference) == [rpc |-> name, phone |-> phone, reference |-> reference]

\* the phone parameter taken from the arguments when they hold one
StorePhoneFromArguments(argPhone, customer_phone_) ==
    IF argPhone # None THEN argPhone ELSE customer_phone_

\* 'p_customer_phone': customer_phone, 'p_phone_number': customer_phone
StorePhone(argPhone, customer_phone_) == customer_phone_

\* the else branch that answers like a tool that succeeded
UnknownFunctionSilent(name) == [error |-> None, flag |-> "True", rpcs |-> 0, log |-> << >>]

\* else: return {"error": f"Unknown function: {function_name}"}
UnknownFunction(name) == [error |-> "Unknown function: " \o name, flag |-> None, rpcs |-> 0, log |-> << >>]

\* the RPC of a tool that makes one call
ToolRpc(name, args, phone) ==
    CASE name = "check_slot_availability" -> Rpc(name, None, None)
      [] name = "delete_appointment" -> Rpc(name, phone, ArgReference)
      [] OTHER -> Rpc(name, phone, None)

\* lookup is the outcome of the get_latest_appointment call that
\* delete_appointment makes first when it has no booking_reference; argPhone
\* is the phone field of the arguments
\* the delete_appointment branch that goes on to the store's delete_appointment
\* whatever the lookup answered
DeletesAfterLookupAlways(lookup) == lookup # "raise"

\* if latest_result.data and latest_result.data.get('status') == 'success'
DeletesAfterLookup(lookup) == lookup = "success"

\* the map returned after one RPC with the given outcome
ResultOf(outcome, rpcs, log) ==
    [error |-> IF outcome = "raise" THEN SystemError ELSE None,
     flag |-> CASE outcome = "raise" -> None
                [] outcome = "success" -> "True"
                [] OTHER -> "False",
     rpcs |-> rpcs, log |-> log]

execute_function(name, args, argPhone, customer_phone_, lookup, outcome) ==
    LET phone == StorePhone(argPhone, customer_phone_)
        latest == Rpc("get_latest_appointment", phone, None)
    IN IF name \notin RegisteredTools THEN UnknownFunction(name)
       ELSE IF ReadsArguments(name) /\ args = "nonobject"
            THEN [error |-> SystemError, flag |-> None, rpcs |-> 0, log |-> << >>]
       ELSE IF name = "delete_appointment" /\ args = "no_reference"
            THEN IF lookup = "raise" THEN ResultOf("raise", 1, <<latest>>)
                 ELSE IF DeletesAfterLookup(lookup)
                      THEN ResultOf(outcome, 2, <<latest, Rpc(name, phone, FoundReference)>>)
                      ELSE ResultOf("refused", 1, <<latest>>)
       ELSE ResultOf(outcome, 1, <<ToolRpc(name, args, phone)>>)

\* ---------------------------------------------------------- the environment
\* the session is RUNNING: session.update was sent and both directions relay
Running ==
    /\ hpc = "gather" /\ session_initialized
    /\ rpc = "loop" /\ spc \notin {"idle", "done"}
    /\ aiSock = "open" /\ carrierSock = "open"

\* the carrier closes the media socket without a stop event
CarrierPeerClose ==
    /\ hpc \in {"connect", "gather"}
    /\ carrierSock = "open"
    /\ carrierSock' = "peerclosed"
    /\ hist' = [hist EXCEPT !.carrierClosedRunning = @ \/ Running]
    /\ UNCHANGED <<hpc, accepted, connectAttempts, aiSock, aiClosedBy, rpc, spc, stream_sid,
                   customer_phone, session_initialized, curCall, conversations, dbCreated,
                   dbEnded, dbTurns, dbCalls, aiSent, carrierSent, nCarrier, nAi, nFrames,
                   nCalls, callStatus, storeCalls, storeLog, sessions, web, tool, call_log>>

\* the AI peer closes its socket
AiPeerClose ==
    /\ aiSock = "open"
    /\ aiSock' = "closed"
    /\ aiClosedBy' = "peer"
    /\ hist' = [hist EXCEPT !.aiClosedRunning = @ \/ Running]
    /\ UNCHANGED <<hpc, accepted, connectAttempts, carrierSock, rpc, spc, stream_sid,
                   customer_phone, session_initialized, curCall, conversations, dbCreated,
                   dbEnded, dbTurns, dbCalls, aiSent, carrierSent, nCarrier, nAi, nFrames,
                   nCalls, callStatus, storeCalls, storeLog, sessions, web, tool, call_log>>

\* ------------------------------------------------------ media_stream_handler
\* await websocket.accept(): on failure the handler returns at once
Accept ==
    /\ hpc = "accept"
    /\ \E ok \in BOOLEAN :
         IF ok
         THEN /\ accepted' = TRUE /\ hpc' = "connect" /\ carrierSock' = carrierSock
         ELSE /\ accepted' = FALSE /\ hpc' = "done" /\ carrierSock' = "peerclosed"
    /\ UNCHANGED <<connectAttempts, aiSock, aiClosedBy, rpc, spc, stream_sid, customer_phone,
                   session_initialized, curCall, conversations, dbCreated, dbEnded, dbTurns,
                   dbCalls, aiSent, carrierSent, nCarrier, nAi, nFrames, nCalls, hist, callStatus, storeCalls, storeLog, sessions, web, tool, call_log>>

\* async with websockets.connect(...): one call, entered right after accept.
\* Success starts both coroutines under asyncio.gather; failure raises into
\* the handler's except and finally, which closes the carrier socket.
ConnectAi ==
    /\ hpc = "connect"
    /\ connectAttempts' = connectAttempts + 1
    /\ \E ok \in BOOLEAN :
         IF ok
         THEN /\ aiSock' = "open" /\ hpc' = "gather" /\ rpc' = "loop" /\ spc' = "loop"
              /\ hist' = [hist EXCEPT !.aiEverOpen = TRUE]
              /\ carrierSock' = carrierSock
         ELSE /\ aiSock' = aiSock /\ hpc' = "done" /\ rpc' = rpc /\ spc' = spc
              /\ hist' = hist
              /\ carrierSock' = "closed"
    /\ UNCHANGED <<accepted, aiClosedBy, stream_sid, customer_phone, session_initialized,
                   curCall, conversations, dbCreated, dbEnded, dbTurns, dbCalls, aiSent,
                   carrierSent, nCarrier, nAi, nFrames, nCalls, callStatus, storeCalls, storeLog, sessions, web, tool, call_log>>

\* asyncio.gather has returned: leaving the async with closes the AI socket,
\* the finally clause closes the carrier socket
HandlerExit ==
    /\ hpc = "gather" /\ rpc = "done" /\ spc = "done"
    /\ hpc' = "done"
    /\ aiClosedBy' = IF aiSock = "open" THEN "bridge" ELSE aiClosedBy
    /\ aiSock' = "closed"
    /\ carrierSock' = "closed"
    /\ UNCHANGED <<accepted, connectAttempts, rpc, spc, stream_sid, customer_phone,
                   session_initialized, curCall, conversations, dbCreated, dbEnded, dbTurns,
                   dbCalls, aiSent, carrierSent, nCarrier, nAi, nFrames, nCalls, hist, callStatus, storeCalls, storeLog, sessions, web, tool, call_log>>

\* ------------------------------------------------------ receive_from_twilio
\* execute_function calls the booking store with the synchronous client and
\* has no await: while it runs, the event loop runs nothing else
LoopFree == spc # "dispatch"

\* A send on the closed AI socket raises ConnectionClosed, which is no
\* JSONDecodeError: it leaves the loop through except Exception and the
\* coroutine ends.  The value is the position of the coroutine afterwards.
AfterSendRaisesContinue == "loop"

AfterSendRaises == "done"

\* the media branch without its guard: every media frame is forwarded
ForwardsMediaAlways(sid, initialized) == TRUE

\* elif event_type == 'media' and stream_sid and session_initialized
ForwardsMedia(sid, initialized) == sid # None /\ initialized

\* async for message in websocket.iter_text(): the next carrier frame
RecvReady ==
    /\ hpc = "gather" /\ rpc = "loop" /\ LoopFree
    /\ carrierSock = "open"
    /\ nCarrier < MaxCarrierEvents

SessionUpdateSent == \E i \in 1..Len(aiSent) : aiSent[i].type = "session.update"

\* 'connected', 'mark' and any other event: no branch matches.
\* Text that is not JSON: JSONDecodeError, logged, continue.
RecvIgnored ==
    /\ RecvReady
    /\ \E kind \in {"connected", "mark", "not_json"} : nCarrier' = nCarrier + 1
    /\ UNCHANGED <<hpc, accepted, connectAttempts, aiSock, aiClosedBy, carrierSock, rpc, spc,
                   stream_sid, customer_phone, session_initialized, curCall, conversations,
                   dbCreated, dbEnded, dbTurns, dbCalls, aiSent, carrierSent, nAi, nFrames,
                   nCalls, hist, callStatus, storeCalls, storeLog, sessions, web, tool, call_log>>

\* 'start': identifiers stored, conversation record created, call_sessions
\* set to connected, session.update sent, then session_initialized = True.  A send on a closed AI socket raises
\* into the coroutine's except Exception, which ends the coroutine.
RecvStart ==
    /\ RecvReady
    /\ nCarrier' = nCarrier + 1
    /\ \E sid \in Sids, phone \in Phones, ok \in BOOLEAN :
         /\ stream_sid' = sid
         /\ customer_phone' = phone
         /\ create_conversation(sid, ok)
    /\ \E ok \in CallSessionWrites : update_call_session("connected", ok)
    /\ IF aiSock = "open"
       THEN /\ aiSent' = Append(aiSent, Msg("session.update", 0))
            /\ session_initialized' = TRUE
            /\ rpc' = rpc
       ELSE /\ aiSent' = aiSent
            /\ session_initialized' = session_initialized
            /\ rpc' = AfterSendRaises
    /\ UNCHANGED <<hpc, accepted, connectAttempts, aiSock, aiClosedBy, carrierSock, spc,
                   curCall, dbEnded, dbTurns, dbCalls, carrierSent, nAi, nFrames, nCalls, hist, storeCalls, storeLog, sessions, web, tool, call_log>>

\* an append that repeats the payload of the first frame
AudioAppendStale(frame) == Msg("input_audio_buffer.append", 1)

\* audio_append = {"type": "input_audio_buffer.append", "audio": payload}:
\* the payload of the frame, unchanged
AudioAppend(frame) == Msg("input_audio_buffer.append", frame)

\* 'media': forwarded as input_audio_buffer.append or dropped
RecvMedia ==
    /\ RecvReady
    /\ nCarrier' = nCarrier + 1
    /\ nFrames' = nFrames + 1
    /\ hist' = IF SessionUpdateSent
               THEN [hist EXCEPT !.framesAfterUpdate = @ \cup {nFrames + 1}]
               ELSE hist
    /\ IF ForwardsMedia(stream_sid, session_initialized)
       THEN IF aiSock = "open"
            THEN /\ aiSent' = Append(aiSent, AudioAppend(nFrames + 1))
                 /\ rpc' = rpc
            ELSE /\ aiSent' = aiSent
                 /\ rpc' = AfterSendRaises
       ELSE /\ aiSent' = aiSent
            /\ rpc' = rpc
    /\ UNCHANGED <<hpc, accepted, connectAttempts, aiSock, aiClosedBy, carrierSock, spc,
                   stream_sid, customer_phone, session_initialized, curCall, conversations,
                   dbCreated, dbEnded, dbTurns, dbCalls, carrierSent, nAi, nCalls, callStatus, storeCalls, storeLog, sessions, web, tool, call_log>>

\* A frame without the field its branch subscripts: data['start'] of a start
\* frame, data['media']['payload'] of a media frame that passes the guard.
\* The KeyError is no JSONDecodeError: it leaves the loop through except
\* Exception before the branch has changed anything.  A media frame that
\* fails the guard is not subscripted.
RecvMissingField ==
    /\ RecvReady
    /\ nCarrier' = nCarrier + 1
    /\ \E kind \in {"start", "media"} :
         rpc' = IF kind = "start" \/ ForwardsMedia(stream_sid, session_initialized)
                THEN "done"
                ELSE rpc
    /\ UNCHANGED <<hpc, accepted, connectAttempts, aiSock, aiClosedBy, carrierSock, spc,
                   stream_sid, customer_phone, session_initialized, curCall, conversations,
                   dbCreated, dbEnded, dbTurns, dbCalls, aiSent, carrierSent, nAi, nFrames,
                   nCalls, hist, callStatus, storeCalls, storeLog, sessions, web, tool, call_log>>

\* 'stop': end_conversation if a start was seen, call_sessions set to
\* completed, then break
RecvStop ==
    /\ RecvReady
    /\ nCarrier' = nCarrier + 1
    /\ rpc' = "done"
    /\ hist' = [hist EXCEPT !.stopRunning = @ \/ Running,
                            !.stopBeforeStart = @ \/ (stream_sid = None)]
    /\ IF stream_sid # None
       THEN \E ok \in BOOLEAN : end_conversation(stream_sid, ok)
       ELSE UNCHANGED <<dbEnded, conversations>>
    /\ \E ok \in CallSessionWrites : update_call_session("completed", ok)
    /\ UNCHANGED <<hpc, accepted, connectAttempts, aiSock, aiClosedBy, carrierSock, spc,
                   stream_sid, customer_phone, session_initialized, curCall, dbCreated,
                   dbTurns, dbCalls, aiSent, carrierSent, nAi, nFrames, nCalls, storeCalls, storeLog, sessions, web, tool, call_log>>

\* The carrier socket is gone.  Starlette's iter_text ends the iteration on
\* a disconnect (raised = FALSE); the coroutine's own except
\* WebSocketDisconnect clause, which calls end_conversation, is the other
\* outcome (raised = TRUE).
RecvDisconnect ==
    /\ hpc = "gather" /\ rpc = "loop" /\ LoopFree
    /\ carrierSock = "peerclosed"
    /\ rpc' = "done"
    /\ \E raised \in BOOLEAN :
         IF raised /\ stream_sid # None
         THEN \E ok \in BOOLEAN : end_conversation(stream_sid, ok)
         ELSE UNCHANGED <<dbEnded, conversations>>
    /\ UNCHANGED <<hpc, accepted, connectAttempts, aiSock, aiClosedBy, carrierSock, spc,
                   stream_sid, customer_phone, session_initialized, curCall, dbCreated,
                   dbTurns, dbCalls, aiSent, carrierSent, nCarrier, nAi, nFrames, nCalls, hist, callStatus, storeCalls, storeLog, sessions, web, tool, call_log>>

\* ----------------------------------------------------------- send_to_twilio
\* async for message in openai_ws: the next AI event
SendReady ==
    /\ hpc = "gather" /\ spc = "loop"
    /\ aiSock = "open"
    /\ nAi < MaxAiEvents

\* transcription.completed (user) and audio_transcript.done (assistant):
\* a turn is added when the transcript is not empty and stream_sid is set
AiTranscriptEvent(role, hasText, ok) ==
    /\ SendReady
    /\ nAi' = nAi + 1
    /\ hist' = IF hasText /\ Running
               THEN [hist EXCEPT !.turnsDelivered = @ + 1]
               ELSE IF hasText /\ stream_sid # None /\ dbEnded > 0
                    THEN [hist EXCEPT !.turnAfterEnd = TRUE]
                    ELSE hist
    /\ IF hasText /\ stream_sid # None
       THEN add_turn(stream_sid, role, ok)
       ELSE UNCHANGED <<dbTurns, conversations>>
    /\ UNCHANGED <<hpc, accepted, connectAttempts, aiSock, aiClosedBy, carrierSock, rpc, spc,
                   stream_sid, customer_phone, session_initialized, curCall, dbCreated,
                   dbEnded, dbCalls, aiSent, carrierSent, nCarrier, nFrames, nCalls, callStatus, storeCalls, storeLog, sessions, web, tool, call_log>>

AiTranscript ==
    \E role \in {"user", "assistant"}, hasText \in BOOLEAN, ok \in BOOLEAN :
        AiTranscriptEvent(role, hasText, ok)

\* the audio branch without the test of stream_sid
ForwardsDeltaAlways(sid, hasDelta) == hasDelta

\* elif response_type == 'response.audio.delta' and stream_sid: ... if audio_delta:
ForwardsDelta(sid, hasDelta) == sid # None /\ hasDelta

\* twilio_message: the media frame written to the carrier
TwilioMedia(sid, delta) == [event |-> "media", streamSid |-> sid, payload |-> delta]

\* response.audio.delta: written to the carrier when stream_sid is set and
\* the delta is not empty; a write on a closed carrier socket raises into the
\* coroutine's except Exception.  The delta is named by the number of its event.
AiAudioDelta ==
    /\ SendReady
    /\ nAi' = nAi + 1
    /\ \E hasDelta \in BOOLEAN :
         /\ hist' = IF hasDelta /\ stream_sid = None
                    THEN [hist EXCEPT !.earlyDeltas = @ \cup {nAi + 1}]
                    ELSE hist
         /\ IF ForwardsDelta(stream_sid, hasDelta)
            THEN IF carrierSock = "open"
                 THEN /\ carrierSent' = Append(carrierSent, TwilioMedia(stream_sid, nAi + 1))
                      /\ spc' = spc
                 ELSE /\ carrierSent' = carrierSent
                      /\ spc' = "done"
            ELSE /\ carrierSent' = carrierSent
                 /\ spc' = spc
    /\ UNCHANGED <<hpc, accepted, connectAttempts, aiSock, aiClosedBy, carrierSock, rpc,
                   stream_sid, customer_phone, session_initialized, curCall, conversations,
                   dbCreated, dbEnded, dbTurns, dbCalls, aiSent, nCarrier, nFrames, nCalls,
                   callStatus, storeCalls, storeLog, sessions, web, tool, call_log>>

\* audio_transcript.delta, error events, unknown kinds, text that is not JSON:
\* nothing is sent and nothing is recorded
AiIgnored ==
    /\ SendReady
    /\ \E kind \in {"response.audio_transcript.delta", "error", "session.updated", "not_json"} :
         nAi' = nAi + 1
    /\ UNCHANGED <<hpc, accepted, connectAttempts, aiSock, aiClosedBy, carrierSock, rpc, spc,
                   stream_sid, customer_phone, session_initialized, curCall, conversations,
                   dbCreated, dbEnded, dbTurns, dbCalls, aiSent, carrierSent, nCarrier,
                   nFrames, nCalls, hist, callStatus, storeCalls, storeLog, sessions, web, tool, call_log>>

\* What json.loads(response.get('arguments', '{}')) does with the arguments
\* field: "parsed", "JSONDecodeError" (caught by the inner except: continue)
\* or "TypeError" (json.loads(None); caught by the outer except: the
\* coroutine ends)
ParseArguments(args) ==
    CASE args = "invalid" -> "JSONDecodeError"
      [] args = "null" -> "TypeError"
      [] OTHER -> "parsed"

\* response.function_call_arguments.done, up to the call of execute_function
AiFunctionCall ==
    /\ SendReady
    /\ nCalls < MaxCalls
    /\ nAi' = nAi + 1
    /\ nCalls' = nCalls + 1
    /\ \E name \in ToolNames, args \in ArgKinds :
         CASE ParseArguments(args) = "JSONDecodeError" ->
                /\ spc' = "loop" /\ curCall' = curCall
           [] ParseArguments(args) = "TypeError" ->
                /\ spc' = "done" /\ curCall' = curCall
           [] OTHER ->
                /\ spc' = "dispatch"
                /\ curCall' = [name |-> name, call_id |-> nCalls + 1, args |-> args,
                               error |-> None, late |-> FALSE, flag |-> None]
    /\ UNCHANGED <<hpc, accepted, connectAttempts, aiSock, aiClosedBy, carrierSock, rpc,
                   stream_sid, customer_phone, session_initialized, conversations, dbCreated,
                   dbEnded, dbTurns, dbCalls, aiSent, carrierSent, nCarrier, nFrames, hist, callStatus, storeCalls, storeLog, sessions, web, tool, call_log>>

\* result = await execute_function(...): the call is awaited without
\* asyncio.wait_for or any other timer.  The clock passes the deadline that
\* the specification gives a dispatch while execute_function has not
\* returned; nothing in the bridge runs at that moment.
DeadlinePasses ==
    /\ hpc = "gather" /\ spc = "dispatch"
    /\ ~curCall.late
    /\ curCall' = [curCall EXCEPT !.late = TRUE]
    /\ UNCHANGED <<hpc, accepted, connectAttempts, aiSock, aiClosedBy, carrierSock, rpc, spc,
                   stream_sid, customer_phone, session_initialized, conversations, dbCreated,
                   dbEnded, dbTurns, dbCalls, aiSent, carrierSent, nCarrier, nAi, nFrames,
                   nCalls, hist, callStatus, storeCalls, storeLog, sessions, web, tool, call_log>>

\* add_function_call without its except clause: a write that raises leaves
\* the loop of send_to_twilio
AfterLoggingRaises(ok) == IF ok THEN "send_output" ELSE "done"

\* add_function_call catches every exception of the log store (except
\* Exception: logger.error): send_to_twilio goes on to send the output
AfterLogging(ok) == "send_output"

\* execute_function returns; the call is logged when stream_sid is set
StoreReturnWith(argPhone, lookup, outcome, ok) ==
    /\ hpc = "gather" /\ spc = "dispatch"
    /\ LET result == execute_function(curCall.name, curCall.args, argPhone, customer_phone,
                                      lookup, outcome)
           call == [curCall EXCEPT !.error = result.error, !.flag = result.flag]
       IN /\ storeCalls' = storeCalls + result.rpcs
          /\ storeLog' = storeLog \o result.log
          /\ curCall' = [NoCall EXCEPT !.call_id = call.call_id, !.error = call.error,
                                       !.flag = call.flag]
          /\ IF stream_sid # None
             THEN add_function_call(stream_sid, call, ok)
             ELSE UNCHANGED <<dbCalls, conversations>>
    /\ spc' = AfterLogging(ok)
    /\ UNCHANGED <<hpc, accepted, connectAttempts, aiSock, aiClosedBy, carrierSock, rpc,
                   stream_sid, customer_phone, session_initialized, dbCreated, dbEnded,
                   dbTurns, aiSent, carrierSent, nCarrier, nAi, nFrames, nCalls, hist, callStatus, sessions, web, tool, call_log>>

\* the first call of delete_appointment is made only without a reference
Lookups(call) ==
    IF call.name = "delete_appointment" /\ call.args = "no_reference"
    THEN StoreOutcomes
    ELSE {"success"}

StoreReturn ==
    \E argPhone \in ArgPhones, lookup \in Lookups(curCall), outcome \in StoreOutcomes,
       ok \in BOOLEAN :
        StoreReturnWith(argPhone, lookup, outcome, ok)

\* await openai_ws.send(function_output)
SendOutput ==
    /\ hpc = "gather" /\ spc = "send_output"
    /\ IF aiSock = "open"
       THEN /\ aiSent' = Append(aiSent, OutputMsg(curCall.call_id, curCall.error))
            /\ spc' = "send_create"
            /\ curCall' = curCall
       ELSE /\ aiSent' = aiSent
            /\ spc' = "done"
            /\ curCall' = NoCall
    /\ UNCHANGED <<hpc, accepted, connectAttempts, aiSock, aiClosedBy, carrierSock, rpc,
                   stream_sid, customer_phone, session_initialized, conversations, dbCreated,
                   dbEnded, dbTurns, dbCalls, carrierSent, nCarrier, nAi, nFrames, nCalls, hist, callStatus, storeCalls, storeLog, sessions, web, tool, call_log>>

\* await openai_ws.send({"type": "response.create"})
SendCreate ==
    /\ hpc = "gather" /\ spc = "send_create"
    /\ IF aiSock = "open"
       THEN /\ aiSent' = Append(aiSent, Msg("response.create", curCall.call_id))
            /\ spc' = "loop"
       ELSE /\ aiSent' = aiSent
            /\ spc' = "done"
    /\ curCall' = NoCall
    /\ UNCHANGED <<hpc, accepted, connectAttempts, aiSock, aiClosedBy, carrierSock, rpc,
                   stream_sid, customer_phone, session_initialized, conversations, dbCreated,
                   dbEnded, dbTurns, dbCalls, carrierSent, nCarrier, nAi, nFrames, nCalls, hist, callStatus, storeCalls, storeLog, sessions, web, tool, call_log>>

\* the AI socket is closed: the iteration over openai_ws ends, or raises
\* ConnectionClosedError into except Exception; the coroutine ends either way
SendDisconnect ==
    /\ hpc = "gather" /\ spc = "loop"
    /\ aiSock = "closed"
    /\ spc' = "done"
    /\ UNCHANGED <<hpc, accepted, connectAttempts, aiSock, aiClosedBy, carrierSock, rpc,
                   stream_sid, customer_phone, session_initialized, curCall, conversations,
                   dbCreated, dbEnded, dbTurns, dbCalls, aiSent, carrierSent, nCarrier, nAi,
                   nFrames, nCalls, hist, callStatus, storeCalls, storeLog, sessions, web, tool, call_log>>

\* ------------------------------------------------------------ specification
\* steps the bridge takes by itself
BridgeStep ==
    \/ ConnectAi \/ HandlerExit
    \/ RecvDisconnect
    \/ StoreReturn \/ SendOutput \/ SendCreate \/ SendDisconnect

\* steps that need the carrier or the AI peer to act
PeerStep ==
    \/ Accept \/ CarrierPeerClose \/ AiPeerClose
    \/ RecvIgnored \/ RecvMissingField \/ RecvStart \/ RecvMedia \/ RecvStop
    \/ AiTranscript \/ AiAudioDelta \/ AiIgnored \/ AiFunctionCall

\* the clock
TimeStep == DeadlinePasses

Next == BridgeStep \/ PeerStep \/ TimeStep

Spec == Init /\ [][Next]_vars

\* The event loop runs every coroutine that is ready; the peers owe nothing.
FairSpec == Spec /\ WF_vars(BridgeStep)

\* ------------------------------------------------- two concurrent sessions
\* the closure variables as module-level globals: one set for all handlers
ClosureShared(h) == 1

\* stream_sid = None ... nonlocal stream_sid, customer_phone, ...: the
\* variables are locals of the call of media_stream_handler, one set per call
Closure(h) == h

\* the variables of the single-session specification
SingleVars ==
    <<hpc, accepted, connectAttempts, aiSock, aiClosedBy, carrierSock, rpc, spc,
      stream_sid, customer_phone, session_initialized, curCall, aiSent, carrierSent,
      nCarrier, nAi, nFrames, nCalls, hist, callStatus>>

PairInit == Init

PairReady(h) == sessions[h].n < MaxPairEvents

PairRecvReady(h) == PairReady(h) /\ sessions[h].rpc = "loop"

PairSendReady(h) == PairReady(h) /\ sessions[h].pending = << >>

\* a payload of handler h: its media frames and audio deltas are told apart
\* from those of the other handler
PairPayload(h) == <<h, sessions[h].n + 1>>

\* 'start' read by handler h
PairStart(h) ==
    /\ PairRecvReady(h)
    /\ \E ok \in BOOLEAN : create_conversation(PairSid[h], ok)
    /\ sessions' = [sessions EXCEPT ![Closure(h)].stream_sid = PairSid[h],
                                    ![Closure(h)].customer_phone = PairPhone[h],
                                    ![Closure(h)].session_initialized = TRUE,
                                    ![h].aiSent = Append(@, Msg("session.update", 0)),
                                    ![h].n = @ + 1]
    /\ UNCHANGED <<dbEnded, dbTurns, dbCalls, storeCalls, storeLog, SingleVars, web, tool, call_log>>

\* 'media' read by handler h
PairMedia(h) ==
    /\ PairRecvReady(h)
    /\ LET c == sessions[Closure(h)]
       IN sessions' = [sessions EXCEPT
              ![h].aiSent = IF ForwardsMedia(c.stream_sid, c.session_initialized)
                            THEN Append(@, AudioAppend(PairPayload(h)))
                            ELSE @,
              ![h].n = @ + 1]
    /\ UNCHANGED <<conversations, dbCreated, dbEnded, dbTurns, dbCalls, storeCalls, storeLog,
                   SingleVars, web, tool, call_log>>

\* 'stop' read by handler h
PairStop(h) ==
    /\ PairRecvReady(h)
    /\ LET c == sessions[Closure(h)]
       IN IF c.stream_sid # None
          THEN \E ok \in BOOLEAN : end_conversation(c.stream_sid, ok)
          ELSE UNCHANGED <<dbEnded, conversations>>
    /\ sessions' = [sessions EXCEPT ![h].rpc = "done", ![h].n = @ + 1]
    /\ UNCHANGED <<dbCreated, dbTurns, dbCalls, storeCalls, storeLog, SingleVars, web, tool, call_log>>

\* a transcript with text read by send_to_twilio of handler h
PairTranscript(h) ==
    /\ PairSendReady(h)
    /\ LET c == sessions[Closure(h)]
       IN IF c.stream_sid # None
          THEN \E role \in {"user", "assistant"}, ok \in BOOLEAN : add_turn(c.stream_sid, role, ok)
          ELSE UNCHANGED <<dbTurns, conversations>>
    /\ sessions' = [sessions EXCEPT ![h].n = @ + 1]
    /\ UNCHANGED <<dbCreated, dbEnded, dbCalls, storeCalls, storeLog, SingleVars, web, tool, call_log>>

\* response.audio.delta read by send_to_twilio of handler h
PairAudioDelta(h) ==
    /\ PairSendReady(h)
    /\ LET c == sessions[Closure(h)]
       IN sessions' = [sessions EXCEPT
              ![h].carrierSent = IF ForwardsDelta(c.stream_sid, TRUE)
                                 THEN Append(@, TwilioMedia(c.stream_sid, PairPayload(h)))
                                 ELSE @,
              ![h].n = @ + 1]
    /\ UNCHANGED <<conversations, dbCreated, dbEnded, dbTurns, dbCalls, storeCalls, storeLog,
                   SingleVars, web, tool, call_log>>

\* function_call_arguments.done read by handler h, up to the first send:
\* execute_function and add_function_call run without an await between them
PairFunctionCall(h) ==
    /\ PairSendReady(h)
    /\ \E name \in {"get_latest_appointment"}, outcome \in {"success"}, ok \in BOOLEAN :
         LET c == sessions[Closure(h)]
             result == execute_function(name, "object", None, c.customer_phone, "success", outcome)
             call == [NoCall EXCEPT !.name = name, !.call_id = PairPayload(h),
                                    !.error = result.error]
         IN /\ storeCalls' = storeCalls + result.rpcs
            /\ storeLog' = storeLog \o result.log
            /\ IF c.stream_sid # None
               THEN add_function_call(c.stream_sid, call, ok)
               ELSE UNCHANGED <<dbCalls, conversations>>
            /\ sessions' = [sessions EXCEPT
                   ![h].pending = <<OutputMsg(call.call_id, call.error),
                                    Msg("response.create", call.call_id)>>,
                   ![h].n = @ + 1]
    /\ UNCHANGED <<dbCreated, dbEnded, dbTurns, SingleVars, web, tool, call_log>>

\* await openai_ws.send(...): the next pending event goes to the AI socket
\* of handler h
PairSend(h) ==
    /\ sessions[h].pending # << >>
    /\ sessions' = [sessions EXCEPT ![h].aiSent = Append(@, Head(sessions[h].pending)),
                                    ![h].pending = Tail(@)]
    /\ UNCHANGED <<conversations, dbCreated, dbEnded, dbTurns, dbCalls, storeCalls, storeLog,
                   SingleVars, web, tool, call_log>>

\* the steps of handler h
PairStep(h) ==
    \/ PairStart(h) \/ PairMedia(h) \/ PairStop(h)
    \/ PairTranscript(h) \/ PairAudioDelta(h) \/ PairFunctionCall(h) \/ PairSend(h)

PairNext == \E h \in Handlers : PairStep(h)

PairSpec == PairInit /\ [][PairNext]_vars

\* ------------------------------------------------------- the HTTP front door
\* what a call of the store does for a request
CallOutcomes == {"ok", "raise"}

\* except Exception as e: raise HTTPException(status_code=500, detail=str(e)).
\* HTTPException is a subclass of Exception: an HTTPException raised inside
\* the try block is caught here as well, whatever its status code.
ExceptException(status) == 500

\* get_transcript: select is the outcome of the conversations query, rpc
\* that of get_conversation_transcript; found: the query returned a row
get_transcript(found, select, rpc_) ==
    IF select = "raise" THEN ExceptException(0)
    ELSE IF ~found THEN ExceptException(404)
    ELSE IF rpc_ = "raise" THEN ExceptException(0)
    ELSE 200

\* export_conversation: queries is the outcome of the three queries that
\* follow the conversations query
export_conversation(found, select, queries) ==
    IF select = "raise" THEN ExceptException(0)
    ELSE IF ~found THEN ExceptException(404)
    ELSE IF queries = "raise" THEN ExceptException(0)
    ELSE 200

\* The markups, by their verbs in document order.  handle_incoming_call of
\* app.py appends <Connect><Stream> to the response and calls response.say
\* after it: the <Say> follows the <Connect>.
ConnectStream == <<"Connect", "Say">>

\* TwilioHandler.handle_incoming_call: response.say, then response.append(connect)
SayConnectStream == <<"Say", "Connect">>

\* create_error_response: an apology and <Hangup>
create_error_response == <<"Say", "Hangup">>

\* handle_incoming_call of app.py: the insert into call_sessions is in a try
\* whose except clause logs; the markup is built after it
handle_incoming_call(insert) == ConnectStream

\* TwilioHandler.handle_incoming_call: create_call_session re-raises, the
\* except clause returns create_error_response()
TwilioHandler_handle_incoming_call(insert) ==
    IF insert = "raise" THEN create_error_response ELSE SayConnectStream

WebReady == Len(web.responses) < MaxRequests

WebFrame ==
    <<hpc, accepted, connectAttempts, aiSock, aiClosedBy, carrierSock, rpc, spc,
      stream_sid, customer_phone, session_initialized, curCall, conversations,
      dbCreated, dbEnded, dbTurns, dbCalls, aiSent, carrierSent,
      nCarrier, nAi, nFrames, nCalls, hist, callStatus, storeCalls, storeLog, sessions,
      tool, call_log>>

\* a session has inserted a row into conversations
ConversationStored ==
    /\ \E id \in ApiIds \ web.stored : web' = [web EXCEPT !.stored = @ \cup {id}]
    /\ UNCHANGED WebFrame

\* GET /api/conversations/{conversation_id}/transcript
GetTranscript ==
    /\ WebReady
    /\ \E id \in ApiIds, select \in CallOutcomes, rpc_ \in CallOutcomes :
         web' = [web EXCEPT !.responses = Append(@,
                    [endpoint |-> "transcript", id |-> id,
                     failed |-> (select = "raise" \/ (id \in web.stored /\ rpc_ = "raise")),
                     status |-> get_transcript(id \in web.stored, select, rpc_)])]
    /\ UNCHANGED WebFrame

\* GET /api/conversations/{conversation_id}/export
ExportConversation ==
    /\ WebReady
    /\ \E id \in ApiIds, select \in CallOutcomes, queries \in CallOutcomes :
         web' = [web EXCEPT !.responses = Append(@,
                    [endpoint |-> "export", id |-> id,
                     failed |-> (select = "raise" \/ (id \in web.stored /\ queries = "raise")),
                     status |-> export_conversation(id \in web.stored, select, queries)])]
    /\ UNCHANGED WebFrame

\* POST /webhook/incoming-call
IncomingCall ==
    /\ WebReady
    /\ \E insert \in CallOutcomes :
         web' = [web EXCEPT !.responses = Append(@,
                    [endpoint |-> "incoming-call", failed |-> (insert = "raise"),
                     markup |-> handle_incoming_call(insert)])]
    /\ UNCHANGED WebFrame

\* TwilioHandler.handle_incoming_call(request)
TwilioIncomingCall ==
    /\ WebReady
    /\ \E insert \in CallOutcomes :
         web' = [web EXCEPT !.responses = Append(@,
                    [endpoint |-> "TwilioHandler", failed |-> (insert = "raise"),
                     markup |-> TwilioHandler_handle_incoming_call(insert)])]
    /\ UNCHANGED WebFrame

WebNext ==
    \/ ConversationStored
    \/ GetTranscript \/ ExportConversation
    \/ IncomingCall \/ TwilioIncomingCall

WebSpec == Init /\ [][WebNext]_vars

\* --------------------------------------------------- texts and times of day
\* A text is the sequence of its characters.  NoText stands for None where a
\* text is expected: its one element is no character.
NoText == <<None>>

Digits == <<"0", "1", "2", "3", "4", "5", "6", "7", "8", "9">>

IsDigit(c) == \E d \in 1..Len(Digits) : Digits[d] = c

DigitValue(c) == (CHOOSE d \in 1..Len(Digits) : Digits[d] = c) - 1

\* Config.SESSION_DURATION_HOURS, with its default
SESSION_DURATION_HOURS == 2

\* int(text) for a text of letters, digits and colons.  IsNumber: int returns
\* a value; it raises ValueError for a text that is empty or holds a character
\* that is no digit
IsNumber(text) == Len(text) > 0 /\ \A i \in 1..Len(text) : IsDigit(text[i])

\* the decimal value of a text of digits
RECURSIVE int(_)
int(text) ==
    IF Len(text) = 0 THEN 0
    ELSE 10 * int(SubSeq(text, 1, Len(text) - 1)) + DigitValue(text[Len(text)])

\* text.split(':')
RECURSIVE split(_)
split(text) ==
    IF \A i \in 1..Len(text) : text[i] # ":"
    THEN <<text>>
    ELSE LET k == CHOOSE i \in 1..Len(text) :
                      text[i] = ":" /\ \A j \in 1..(i - 1) : text[j] # ":"
         IN <<SubSeq(text, 1, k - 1)>> \o split(SubSeq(text, k + 1, Len(text)))

\* the decimal digits of n >= 0
RECURSIVE Decimal(_)
Decimal(n) ==
    IF n < 10 THEN <<Digits[n + 1]>>
    ELSE Decimal(n \div 10) \o <<Digits[(n % 10) + 1]>>

\* f"{n:02d}": at least two digits, padded with a zero
Format02d(n) == IF n < 10 THEN <<"0">> \o Decimal(n) ELSE Decimal(n)

\* format_time_for_db: HH:MM gets ":00" appended; None, the empty text and a
\* text of another length are returned as they are
format_time_for_db(time_str) ==
    IF time_str # NoText /\ Len(time_str) = 5
    THEN time_str \o <<":", "0", "0">>
    ELSE time_str

\* the end hour with the hours of the day wrapped at midnight
EndHourWrapped(hour) == (hour + SESSION_DURATION_HOURS) % 24

\* end_hour = hour + Config.SESSION_DURATION_HOURS
EndHour(hour) == hour + SESSION_DURATION_HOURS

\* the value of the bare except: of calculate_end_time
DefaultEndTime == <<"1", "2", ":", "0", "0", ":", "0", "0">>

\* calculate_end_time: the first two parts of the text split at ':' are
\* unpacked into hour and minute; None has no split, one part cannot be
\* unpacked, a part that is no number cannot be converted: every exception
\* gives 12:00:00
calculate_end_time(start_time) ==
    IF start_time = NoText THEN DefaultEndTime
    ELSE LET parts == split(start_time)
         IN IF Len(parts) < 2 \/ ~IsNumber(parts[1]) \/ ~IsNumber(parts[2])
            THEN DefaultEndTime
            ELSE Format02d(EndHour(int(parts[1]))) \o <<":">> \o Format02d(int(parts[2]))
                     \o <<":", "0", "0">>

\* ------------------------------------------- POST /api/function-handler
\* the minutes of the start times asked for
Minutes == {0, 30}

\* HH:MM
HHMM(hour, minute) == Format02d(hour) \o <<":">> \o Format02d(minute)

\* HH:MM:00
HHMMSS(hour, minute) == HHMM(hour, minute) \o <<":", "0", "0">>

\* every HH:MM with 00 <= HH <= 23
ValidStartTimes == {HHMM(hour, minute) : hour \in 0..23, minute \in Minutes}

\* start_time missing, and texts that are not HH:MM: "", "9:30", "0930",
\* "10:30:00", "ab:cd", "nine", "25:00", "10:5"
OtherStartTimes ==
    {NoText, << >>, <<"9", ":", "3", "0">>, <<"0", "9", "3", "0">>,
     <<"1", "0", ":", "3", "0", ":", "0", "0">>, <<"a", "b", ":", "c", "d">>,
     <<"n", "i", "n", "e">>, <<"2", "5", ":", "0", "0">>, <<"1", "0", ":", "5">>}

StartTimes == ValidStartTimes \cup OtherStartTimes

\* the arguments map of a book_spa_slot call: arguments.get gives None for a
\* key that is missing
BookArguments == [name : {"Anna", None}, date : {"2025-12-25", None}, start_time : StartTimes]

\* supabase.rpc('book_spa_slot', {...}): the five parameters
BookRpc(arguments, customer_phone_) ==
    [rpc |-> "book_spa_slot", phone |-> customer_phone_, reference |-> None,
     p_customer_name |-> arguments.name,
     p_booking_date |-> arguments.date,
     p_slot_start_time |-> format_time_for_db(arguments.start_time),
     p_slot_end_time |-> calculate_end_time(arguments.start_time)]

\* the book_spa_slot branch of execute_function for an arguments map
book_spa_slot(arguments, customer_phone_, outcome) ==
    ResultOf(outcome, 1, <<BookRpc(arguments, customer_phone_)>>)

\* the phones a request body can name, at its top level and in its context
RestPhones == {"+391110002222", "+391110003333"}

\* the default of data.get("customer_phone", ...)
DefaultRestPhone == "+39 333 123 4567"

\* customer_phone = data.get("customer_phone", "+39 333 123 4567"): the key
\* is read at the top level of the body; the body's context is not read
function_handler_phone(customer_phone_, context_phone) ==
    IF customer_phone_ # None THEN customer_phone_ ELSE DefaultRestPhone

ToolFrame ==
    <<hpc, accepted, connectAttempts, aiSock, aiClosedBy, carrierSock, rpc, spc,
      stream_sid, customer_phone, session_initialized, curCall, conversations,
      dbCreated, dbEnded, dbTurns, dbCalls, aiSent, carrierSent,
      nCarrier, nAi, nFrames, nCalls, hist, callStatus, storeCalls, storeLog, sessions,
      web, call_log>>

RestReady == tool.served < MaxDispatches

\* what the handler gives back for the dispatcher's result
\* return result
function_handler_response(result) == [status |-> 200, error |-> result.error, flag |-> result.flag]

\* a request for book_spa_slot with an arguments map
RestBook ==
    /\ RestReady
    /\ \E arguments \in BookArguments, customer_phone_ \in RestPhones \cup {None},
          context_phone \in RestPhones, outcome \in {"success", "refused", "raise"} :
         LET phone == function_handler_phone(customer_phone_, context_phone)
             result == book_spa_slot(arguments, phone, outcome)
         IN tool' = [tool EXCEPT
                       !.served = @ + 1,
                       !.last = [via |-> "rest", function_name |-> "book_spa_slot",
                                 start_time |-> arguments.start_time,
                                 customer_phone |-> customer_phone_,
                                 context_phone |-> context_phone,
                                 result |-> [error |-> result.error, flag |-> result.flag],
                                 rpcs |-> result.log,
                                 response |-> function_handler_response(result)]]
    /\ UNCHANGED ToolFrame

\* a request for another tool, or for a name that is no tool
RestOther ==
    /\ RestReady
    /\ \E name \in ToolNames \ {"book_spa_slot"}, args \in {"object", "no_reference"},
          customer_phone_ \in RestPhones \cup {None}, context_phone \in RestPhones,
          outcome \in {"success", "raise"} :
         LET phone == function_handler_phone(customer_phone_, context_phone)
             result == execute_function(name, args, None, phone, "success", outcome)
         IN tool' = [tool EXCEPT
                       !.served = @ + 1,
                       !.last = [via |-> "rest", function_name |-> name,
                                 start_time |-> NoText,
                                 customer_phone |-> customer_phone_,
                                 context_phone |-> context_phone,
                                 result |-> [error |-> result.error, flag |-> result.flag],
                                 rpcs |-> result.log,
                                 response |-> function_handler_response(result)]]
    /\ UNCHANGED ToolFrame

\* a body that is no JSON: await request.json() raises into except Exception
RestNotJson ==
    /\ RestReady
    /\ tool' = [tool EXCEPT
                  !.served = @ + 1,
                  !.last = [via |-> "rest", function_name |-> None, start_time |-> NoText,
                            customer_phone |-> None, context_phone |-> None,
                            result |-> [error |-> None, flag |-> None],
                            rpcs |-> << >>,
                            response |-> [status |-> ExceptException(0), error |-> None,
                                          flag |-> None]]]
    /\ UNCHANGED ToolFrame

RestNext == RestBook \/ RestOther \/ RestNotJson

RestSpec == Init /\ [][RestNext]_vars

\* ------------------------------------------- the rows of call_sessions
\* Calls of the carrier, each with its webhook request and its media stream,
\* and the rows they write.  An update of call_sessions is inside
\* try / except: pass; ok = FALSE is an update that raises.

\* supabase.table('call_sessions').insert({... 'status': 'initiated'})
InsertCallSession(rows, call_id, phone_number, ok) ==
    IF ok
    THEN [rows EXCEPT ![call_id] = [present |-> TRUE, phone_number |-> phone_number,
                                    status |-> "initiated", booking_id |-> 0]]
    ELSE rows

\* .update({'status': status}).eq('call_id', call_sid)
UpdateStatus(rows, call_sid, status, ok) ==
    IF ok /\ rows[call_sid].present
    THEN [rows EXCEPT ![call_sid].status = status]
    ELSE rows

\* .update({'booking_id': booking_id}).eq('phone_number', customer_phone)
\* .eq('status', 'connected'): every row of that phone with that status
LinkBooking(rows, customer_phone_, booking_id) ==
    [c \in CallIds |->
        IF rows[c].present /\ rows[c].phone_number = customer_phone_
             /\ rows[c].status = "connected"
        THEN [rows[c] EXCEPT !.booking_id = booking_id]
        ELSE rows[c]]

\* POST /webhook/incoming-call for a call that is new
CallRings(c) ==
    /\ tool.phase[c] = "none"
    /\ \E From \in RestPhones, ok \in BOOLEAN :
         tool' = [tool EXCEPT
                    !.phase[c] = "ringing",
                    !.caller[c] = From,
                    !.call_sessions = InsertCallSession(@, c, From, ok)]
    /\ UNCHANGED ToolFrame

\* the start event of the call's stream
CallStart(c) ==
    /\ tool.phase[c] = "ringing"
    /\ \E ok \in BOOLEAN :
         tool' = [tool EXCEPT
                    !.phase[c] = "streaming",
                    !.call_sessions = UpdateStatus(@, c, "connected", ok)]
    /\ UNCHANGED ToolFrame

\* the stop event of the call's stream
CallStop(c) ==
    /\ tool.phase[c] = "streaming"
    /\ \E ok \in BOOLEAN :
         tool' = [tool EXCEPT
                    !.phase[c] = "over",
                    !.call_sessions = UpdateStatus(@, c, "completed", ok)]
    /\ UNCHANGED ToolFrame

\* the carrier socket closes without a stop event: no update is made
CallDisconnect(c) ==
    /\ tool.phase[c] = "streaming"
    /\ tool' = [tool EXCEPT !.phase[c] = "over"]
    /\ UNCHANGED ToolFrame

\* book_spa_slot dispatched in the session of call c; the booking_id of the
\* store's answer is the number of the dispatch, 0 when the answer has none
CallBook(c) ==
    /\ tool.phase[c] = "streaming"
    /\ tool.served < MaxDispatches
    /\ \E arguments \in [name : {"Anna"}, date : {"2025-12-25"},
                         start_time : {HHMM(10, 0)}],
          outcome \in {"success", "refused", "raise"}, has_id \in BOOLEAN, ok \in BOOLEAN :
         LET result == book_spa_slot(arguments, tool.caller[c], outcome)
             booking_id == IF has_id THEN tool.served + 1 ELSE 0
         IN tool' = [tool EXCEPT
                       !.served = @ + 1,
                       !.call_sessions =
                           IF outcome = "success" /\ booking_id # 0 /\ ok
                           THEN LinkBooking(@, tool.caller[c], booking_id)
                           ELSE @,
                       !.last = [via |-> "session", function_name |-> "book_spa_slot",
                                 call_id |-> c, booking_id |-> booking_id,
                                 start_time |-> arguments.start_time,
                                 result |-> [error |-> result.error, flag |-> result.flag],
                                 rpcs |-> result.log]]
    /\ UNCHANGED ToolFrame

CallsNext ==
    \E c \in CallIds :
        CallRings(c) \/ CallStart(c) \/ CallStop(c) \/ CallDisconnect(c) \/ CallBook(c)

CallsSpec == Init /\ [][CallsNext]_vars

\* ------------------------------- conversation_logger.py: ConversationLogger
\* The logger that keeps a CallSession per call_sid in memory.  calls counts
\* the calls made to it; datetime.now() of a call is the number of the call.
Now == call_log.calls + 1

\* list.append(item) put at the front of the list
append_front(list, item) == <<item>> \o list

\* list.append(item)
append(list, item) == Append(list, item)

\* CallSession(call_sid=..., phone_number=..., start_time=now,
\* conversation_turns=[], tool_calls=[]) with the defaults of the dataclass
CallSession(phone_number, start_time) ==
    [present |-> TRUE, phone_number |-> phone_number, start_time |-> start_time,
     end_time |-> NoTime, duration |-> NoTime, conversation_turns |-> << >>,
     tool_calls |-> << >>, booking_created |-> FALSE, final_status |-> "in_progress"]

ConversationTurn(speaker, text) == [speaker |-> speaker, text |-> text]

ToolCall(function_name, timestamp) == [function_name |-> function_name, timestamp |-> timestamp]

\* self.sessions[call_sid] = session: an entry that exists is replaced
start_session(sessions_, call_sid, phone_number, now) ==
    [sessions_ EXCEPT ![call_sid] = CallSession(phone_number, now)]

\* log_user_input: a call_sid without session gets one, from "unknown"
log_user_input(sessions_, call_sid, text, now) ==
    LET started == IF sessions_[call_sid].present THEN sessions_
                   ELSE start_session(sessions_, call_sid, "unknown", now)
    IN [started EXCEPT ![call_sid].conversation_turns = append(@, ConversationTurn("user", text))]

\* log_assistant_response: returns for a call_sid without session
log_assistant_response(sessions_, call_sid, text, now) ==
    IF ~sessions_[call_sid].present THEN sessions_
    ELSE [sessions_ EXCEPT
            ![call_sid].conversation_turns = append(@, ConversationTurn("assistant", text))]

\* log_tool_call: returns for a call_sid without session
log_tool_call(sessions_, call_sid, function_name, now) ==
    IF ~sessions_[call_sid].present THEN sessions_
    ELSE [sessions_ EXCEPT ![call_sid].tool_calls = append(@, ToolCall(function_name, now))]

\* end_session: end_time, final_status and duration are set on every call;
\* _store_session_analytics only reads the session
end_session(sessions_, call_sid, status, now) ==
    IF ~sessions_[call_sid].present THEN sessions_
    ELSE [sessions_ EXCEPT ![call_sid].end_time = now,
                           ![call_sid].final_status = status,
                           ![call_sid].duration = now - sessions_[call_sid].start_time]

LogFrame ==
    <<hpc, accepted, connectAttempts, aiSock, aiClosedBy, carrierSock, rpc, spc,
      stream_sid, customer_phone, session_initialized, curCall, conversations,
      dbCreated, dbEnded, dbTurns, dbCalls, aiSent, carrierSent,
      nCarrier, nAi, nFrames, nCalls, hist, callStatus, storeCalls, storeLog, sessions,
      web, tool>>

LogReady == call_log.calls < MaxLogCalls

\* one call of a method; after is the dict the method leaves
LogCall(after) ==
    /\ LogReady
    /\ call_log' = [sessions |-> after, calls |-> call_log.calls + 1]
    /\ UNCHANGED LogFrame

LogStartSession(c) == \E phone \in Phones : LogCall(start_session(call_log.sessions, c, phone, Now))

LogUserInput(c) == LogCall(log_user_input(call_log.sessions, c, Now, Now))

LogAssistantResponse(c) == LogCall(log_assistant_response(call_log.sessions, c, Now, Now))

LogToolCall(c) ==
    \E name \in {"book_spa_slot"} : LogCall(log_tool_call(call_log.sessions, c, name, Now))

LogEndSession(c) ==
    \E status \in {"completed", "failed"} : LogCall(end_session(call_log.sessions, c, status, Now))

LogNext ==
    \E c \in CallIds :
        \/ LogStartSession(c)
        \/ LogUserInput(c) \/ LogAssistantResponse(c) \/ LogToolCall(c)
        \/ LogEndSession(c)

LogSpec == Init /\ [][LogNext]_vars

\* ------------------------------------------------------------- properties
\* positions in aiSent of the events of type t that belong to call or frame c
Sent(t, c) == {i \in 1..Len(aiSent) : aiSent[i].type = t /\ aiSent[i].id = c}

\* call c got exactly one function_call_output and, after it, exactly one
\* response.create
Answered(c) ==
    /\ Cardinality(Sent("function_call_output", c)) = 1
    /\ Cardinality(Sent("response.create", c)) = 1
    /\ \A i \in Sent("function_call_output", c), j \in Sent("response.create", c) : i < j

\* the handler has not returned and no step of the bridge is possible: it
\* goes on only when the carrier or the AI peer acts
BridgeWaitsForPeer == hpc # "done" /\ ~ENABLED BridgeStep

\* C1: every function_call_arguments.done event read by send_to_twilio is
\* answered by exactly one function_call_output with its call_id followed by
\* exactly one response.create, by the time the direction reads its next event.
C1_EveryCallAnswered ==
    (hpc = "gather" /\ spc = "loop") => \A c \in 1..nCalls : Answered(c)

\* send_to_twilio acts on an AI event: it writes audio to the carrier,
\* records a turn or starts a tool dispatch
ActsOnAiEvent ==
    \/ Len(carrierSent') > Len(carrierSent)
    \/ \E s \in Sids : conversations'[s].turn_counter > conversations[s].turn_counter
    \/ spc = "loop" /\ spc' = "dispatch"

\* C2: between reading a function_call_arguments.done event and sending its
\* response.create the AI-to-carrier direction acts on no other AI event:
\* whenever it acts on one, every call read before has its
\* function_call_output and, after it, its response.create on the AI socket.
C2_NothingBeforeAnswer ==
    [][ActsOnAiEvent => \A c \in 1..nCalls : Answered(c)]_vars

\* C3: an input_audio_buffer.append is sent only for a media frame read
\* after session.update was sent (session_initialized is true exactly then);
\* a frame read before that is dropped and never sent later.
C3_MediaOnlyAfterInit ==
    /\ session_initialized = SessionUpdateSent
    /\ \A i \in 1..Len(aiSent) :
         aiSent[i].type = "input_audio_buffer.append" =>
            /\ aiSent[i].id \in hist.framesAfterUpdate
            /\ \E j \in 1..(i - 1) : aiSent[j].type = "session.update"

\* a frame was dropped before the session was initialized and a later frame
\* was forwarded
C3_Witness ==
    /\ \E f \in 1..nFrames : f \notin hist.framesAfterUpdate
    /\ \E f \in hist.framesAfterUpdate : Sent("input_audio_buffer.append", f) # {}

\* C4: while a tool dispatch is in progress the carrier-to-AI direction is
\* not blocked: a media frame of the carrier can be read and forwarded.
C4_AudioFlowsDuringDispatch ==
    (/\ hpc = "gather" /\ spc = "dispatch"
     /\ rpc = "loop" /\ carrierSock = "open" /\ nCarrier < MaxCarrierEvents)
        => ENABLED RecvMedia

\* C5: after a carrier stop read while RUNNING the bridge terminates by
\* itself: until the handler has returned with both sockets closed it always
\* has a step of its own to take and never waits for the AI peer.
C5_StopTerminates ==
    hist.stopRunning =>
        /\ ~BridgeWaitsForPeer
        /\ hpc = "done" => (aiSock = "closed" /\ carrierSock = "closed")

\* C6: after the AI socket closed while RUNNING with the carrier socket open
\* the bridge closes the carrier socket and finalizes the conversation
\* record without waiting for the carrier: it never waits for a peer, and
\* when the handler has returned the carrier socket is closed and ended_at
\* is written.
C6_AiCloseTerminates ==
    hist.aiClosedRunning =>
        /\ ~BridgeWaitsForPeer
        /\ hpc = "done" => (carrierSock = "closed" /\ dbEnded >= 1)

\* C7: after the carrier socket closed without a stop while RUNNING the
\* bridge closes the AI socket and finalizes the conversation record: it
\* never waits for a peer, and when the handler has returned the AI socket
\* is closed and ended_at is written.
C7_CarrierCloseTerminates ==
    hist.carrierClosedRunning =>
        /\ ~BridgeWaitsForPeer
        /\ hpc = "done" => (aiSock = "closed" /\ dbEnded >= 1)

\* C8: once the handler of an accepted carrier socket has returned, exactly
\* one conversation record was created and ended_at was written exactly once.
C8_OneRecordEndedOnce ==
    (accepted /\ hpc = "done") => (dbCreated = 1 /\ dbEnded = 1)

\* C9: after a carrier stop that came before any start, no AI connection was
\* ever opened, no conversation record was created, and the handler
\* terminates without waiting for a peer.
C9_StopBeforeStart ==
    hist.stopBeforeStart =>
        /\ ~hist.aiEverOpen
        /\ dbCreated = 0
        /\ ~BridgeWaitsForPeer

\* C10: when every attempt to open the AI socket failed, the handler has made
\* exactly 3 attempts when it returns, and the carrier socket is closed.
C10_ThreeAttempts ==
    (accepted /\ hpc = "done" /\ ~hist.aiEverOpen) =>
        (connectAttempts = 3 /\ carrierSock = "closed")

\* C11: when the AI handshake failed, the handler returns leaving a
\* conversation record for the session with ended_at set, no turn and no tool
\* invocation, and the call_sessions row with status "failed".
C11_HandshakeFailureRecorded ==
    (accepted /\ hpc = "done" /\ ~hist.aiEverOpen) =>
        /\ dbCreated = 1 /\ dbEnded = 1
        /\ dbTurns = << >> /\ dbCalls = << >>
        /\ callStatus = "failed"

\* receive_from_twilio tries to send an input_audio_buffer.append: it reads
\* a media frame that passes the guard of the media branch
AppendAttempt == RecvMedia /\ ForwardsMedia(stream_sid, session_initialized)

\* the frame ids of the appends in aiSent, in the order they were sent
AppendIds ==
    LET appends == SelectSeq(aiSent, LAMBDA m : m.type = "input_audio_buffer.append")
    IN [i \in 1..Len(appends) |-> appends[i].id]

C13_DeltaOnlyWithStreamSid ==
    \A i \in 1..Len(carrierSent) :
        /\ carrierSent[i].event = "media"
        /\ carrierSent[i].streamSid \in Sids
        /\ carrierSent[i].streamSid = stream_sid
        /\ carrierSent[i].payload \in 1..nAi
        /\ carrierSent[i].payload \notin hist.earlyDeltas
        /\ \A j \in 1..(i - 1) : carrierSent[j].payload < carrierSent[i].payload

\* a delta was dropped before start and a later delta was written
C13_Witness ==
    /\ hist.earlyDeltas # {}
    /\ \E i \in 1..Len(carrierSent) :
         \A d \in hist.earlyDeltas : d < carrierSent[i].payload

StoredTurnNumbers(id) ==
    LET rows == SelectSeq(dbTurns, LAMBDA r : r.conversation_id = id)
    IN [i \in 1..Len(rows) |-> rows[i].turn_number]

\* C15: the turn numbers stored for one conversation are 1, then strictly
\* increasing, whether or not some writes of the log store failed.
C15_TurnNumbersFromOne ==
    \A id \in 1..dbCreated :
        LET nums == StoredTurnNumbers(id)
        IN /\ Len(nums) > 0 => nums[1] = 1
           /\ \A i \in 1..(Len(nums) - 1) : nums[i] < nums[i + 1]

\* C16: while the session is running, every transcription.completed event
\* adds exactly one user turn and every audio_transcript.done event exactly
\* one assistant turn at the end of the conversation's turns: the turn gets
\* the next number of the record in the logger, and its row, when the insert
\* goes through, is the last stored row.
C16_EveryTranscriptRecorded ==
    [][\A role \in {"user", "assistant"} :
          (Running /\ \E hasText \in BOOLEAN, ok \in BOOLEAN : AiTranscriptEvent(role, hasText, ok)) =>
              /\ stream_sid # None
              /\ conversations'[stream_sid].present
              /\ conversations'[stream_sid].turn_counter = conversations[stream_sid].turn_counter + 1
              /\ \/ dbTurns' = dbTurns
                 \/ dbTurns' = Append(dbTurns, [conversation_id |-> conversations[stream_sid].db_id,
                                                role |-> role,
                                                turn_number |-> conversations'[stream_sid].turn_counter])]_vars

\* C17: a malformed frame read on either socket (text that is no JSON, an
\* unknown event kind, a frame without the fields of its kind) is skipped:
\* the direction that read it keeps reading and the other direction is not
\* touched.
C17_MalformedSkipped ==
    [][(RecvIgnored \/ RecvMissingField \/ AiIgnored) => (rpc' = rpc /\ spc' = spc)]_vars

\* a call of the booking store fails: the RPC raises or the store answers
\* with a status other than success
FailedOutcomes == {"refused", "raise"}

\* the dispatch of call makes a call of the booking store that fails
FailedStoreCall(call, lookup, outcome) ==
    /\ call.name \in RegisteredTools
    /\ ~(ReadsArguments(call.name) /\ call.args = "nonobject")
    /\ IF call.name = "delete_appointment" /\ call.args = "no_reference"
       THEN lookup \in FailedOutcomes \/ (lookup = "success" /\ outcome \in FailedOutcomes)
       ELSE outcome \in FailedOutcomes

\* C18: when a call of the booking store made for a tool invocation fails,
\* the result has an error key, the invocation is recorded with success =
\* false, and neither direction ends.
C18_StoreFailureReported ==
    [][\A argPhone \in ArgPhones, lookup \in StoreOutcomes, outcome \in StoreOutcomes, ok \in BOOLEAN :
          (StoreReturnWith(argPhone, lookup, outcome, ok) /\ FailedStoreCall(curCall, lookup, outcome)) =>
              /\ curCall'.error # None
              /\ dbCalls' # dbCalls => ~dbCalls'[Len(dbCalls')].success
              /\ spc' # "done" /\ rpc' = rpc]_vars

\* the tool requested by the call being dispatched is not registered
UnknownDispatch == StoreReturn /\ curCall.name \notin RegisteredTools

\* the result waiting to be sent is the answer to an unknown tool
UnknownResult == curCall.error \in {"Unknown function: " \o n : n \in ToolNames \ RegisteredTools}

\* what the logger holds of the invocation of an unknown tool: one more call
\* in the record, and either no new row or one row with success = false
UnknownRecorded ==
    /\ (stream_sid # None /\ conversations[stream_sid].present) =>
           conversations'[stream_sid].calls = conversations[stream_sid].calls + 1
    /\ \/ dbCalls' = dbCalls
       \/ /\ stream_sid # None
          /\ dbCalls' = Append(dbCalls, [conversation_id |-> conversations[stream_sid].db_id,
                                        call_id |-> curCall.call_id,
                                        function_name |-> curCall.name,
                                        success |-> FALSE])

C20_LateDispatchTimesOut ==
    [][/\ (StoreReturn /\ curCall.late) =>
            /\ curCall'.error = "timeout"
            /\ dbCalls' # dbCalls => ~dbCalls'[Len(dbCalls')].success
            /\ spc' = "send_output"
       /\ (SendCreate /\ aiSock = "open") => spc' = "loop"]_vars

\* the tools whose RPC has a phone parameter
PhoneBoundTools == {"book_spa_slot", "get_latest_appointment", "delete_appointment"}

\* C21: every RPC of a phone-bound tool carries the customerPhone of the
\* session's start event as its phone parameter, and the calls made by a
\* dispatch are the same whatever the phone field of the arguments holds.
C21_StorePhoneIsSessionPhone ==
    [][/\ stream_sid' # None => customer_phone' \in Phones
       /\ \A i \in (Len(storeLog) + 1)..Len(storeLog') :
            storeLog'[i].rpc \in PhoneBoundTools => storeLog'[i].phone = customer_phone
       /\ (spc = "dispatch" /\ spc' # spc) =>
            \A argPhone \in ArgPhones, lookup \in Lookups(curCall), outcome \in StoreOutcomes :
                execute_function(curCall.name, curCall.args, argPhone, customer_phone, lookup, outcome).log
                  = execute_function(curCall.name, curCall.args, None, customer_phone, lookup, outcome).log]_vars

\* after start, a phone-bound tool has called the store with the caller's phone
C21_Witness ==
    /\ stream_sid # None
    /\ \E i \in 1..Len(storeLog) :
         storeLog[i].rpc \in PhoneBoundTools /\ storeLog[i].phone \in Phones

\* the dispatch of a delete_appointment call without booking_reference
DeleteWithoutReference == curCall.name = "delete_appointment" /\ curCall.args = "no_reference"

\* C22: a delete_appointment without booking_reference first calls
\* get_latest_appointment with the session phone; when the lookup finds a
\* booking, the store's delete_appointment is called next with that phone and
\* the reference found; when it finds none, delete_appointment is not called
\* and the result has success = false.
C22_LookupBeforeDelete ==
    [][(spc = "dispatch" /\ DeleteWithoutReference) =>
        \A argPhone \in ArgPhones, lookup \in StoreOutcomes, outcome \in StoreOutcomes, ok \in BOOLEAN :
          StoreReturnWith(argPhone, lookup, outcome, ok) =>
              LET latest == Rpc("get_latest_appointment", customer_phone, None)
              IN /\ lookup = "success" =>
                      storeLog' = storeLog \o <<latest, Rpc("delete_appointment", customer_phone,
                                                             FoundReference)>>
                 /\ lookup # "success" => storeLog' = Append(storeLog, latest)
                 /\ lookup \in {"refused", "empty"} =>
                      curCall'.flag = "False" /\ curCall'.error = None]_vars

\* after start, a lookup found the booking and the deletion that followed it
\* went through
C22_Witness ==
    /\ customer_phone \in Phones
    /\ storeLog = <<Rpc("get_latest_appointment", customer_phone, None),
                    Rpc("delete_appointment", customer_phone, FoundReference)>>
    /\ curCall.flag = "True"

\* C23: a delete_appointment call without booking_reference whose lookup
\* finds a booking leaves two invocations in the conversation record, the
\* lookup of the latest appointment and then the deletion.
C23_TwoInvocationsRecorded ==
    [][\A argPhone \in ArgPhones, outcome \in StoreOutcomes :
          (/\ StoreReturnWith(argPhone, "success", outcome, TRUE)
           /\ DeleteWithoutReference
           /\ stream_sid # None /\ conversations[stream_sid].present) =>
              /\ Len(dbCalls') = Len(dbCalls) + 2
              /\ dbCalls'[Len(dbCalls) + 1].function_name = "get_latest_appointment"
              /\ dbCalls'[Len(dbCalls) + 2].function_name = "delete_appointment"
              /\ conversations'[stream_sid].calls = conversations[stream_sid].calls + 2]_vars

\* C24: a write of the log store that fails in create_conversation,
\* add_turn, add_function_call or end_conversation ends neither direction,
\* and the function_call_output and response.create of a call whose logging
\* failed are sent while the AI socket is open.
C24_LogFailureContained ==
    [][/\ (RecvStart /\ dbCreated' = dbCreated /\ aiSock = "open") =>
            /\ rpc' = rpc /\ spc' = spc
            /\ session_initialized'
            /\ aiSent' = Append(aiSent, Msg("session.update", 0))
       /\ (\E role \in {"user", "assistant"} : AiTranscriptEvent(role, TRUE, FALSE)) =>
            rpc' = rpc /\ spc' = spc
       /\ (/\ spc = "dispatch"
           /\ \E argPhone \in ArgPhones, lookup \in StoreOutcomes, outcome \in StoreOutcomes :
                 StoreReturnWith(argPhone, lookup, outcome, FALSE)) =>
            rpc' = rpc /\ spc' = "send_output"
       /\ ((RecvStop \/ RecvDisconnect) /\ dbEnded' = dbEnded) => spc' = spc
       /\ (SendOutput /\ aiSock = "open") =>
            /\ aiSent' = Append(aiSent, OutputMsg(curCall.call_id, curCall.error))
            /\ spc' = "send_create" /\ rpc' = rpc
       /\ (SendCreate /\ aiSock = "open") =>
            /\ aiSent' = Append(aiSent, Msg("response.create", curCall.call_id))
            /\ spc' = "loop" /\ rpc' = rpc]_vars

\* the insert of a function call failed (the record counts a call that has
\* no row), the call was answered, and both directions are reading
C24_Witness ==
    /\ stream_sid # None
    /\ conversations[stream_sid].calls = 1 /\ dbCalls = << >>
    /\ Answered(1)
    /\ rpc = "loop" /\ spc = "loop"

\* C25: when the log store was unavailable for some writes and took the
\* write that ends the conversation, every transcript with text that the AI
\* delivered while the session was running is among the stored turns when
\* the session is over.
C25_NoTurnLost ==
    (hpc = "done" /\ dbEnded > 0) => Len(dbTurns) = hist.turnsDelivered

\* C26: when the handler of a session that reached RUNNING (session.update
\* sent, session_initialized set) has returned, the call_sessions row has
\* status completed, whatever ended the session.
C26_CompletedAtEnd ==
    (hpc = "done" /\ session_initialized) => callStatus = "completed"

\* C27: a start event read after the session has stored its identifiers
\* changes neither of them, creates no conversation record and sends no
\* session.update.
C27_StartOnce ==
    [][(RecvStart /\ stream_sid # None) =>
            /\ stream_sid' = stream_sid /\ customer_phone' = customer_phone
            /\ dbCreated' = dbCreated /\ conversations' = conversations
            /\ aiSent' = aiSent]_vars

\* the rows that a step added to a table of the log store
NewRows(before, after) == SubSeq(after, Len(before) + 1, Len(after))

\* C28: with two handlers running at once on distinct stream identifiers,
\* what a handler read from its carrier socket goes to its own AI socket
\* only and what it read from its AI socket to its own carrier socket only,
\* under the stream identifier of its own start event; a step of one
\* handler leaves the other handler's sockets, closure variables and
\* conversation record as they were, and the rows it adds belong to its own
\* conversation record.
C28_SessionsIsolated ==
    [][\A h \in Handlers :
          /\ \A i \in 1..Len(sessions'[h].aiSent) :
                sessions'[h].aiSent[i].type # "session.update" => sessions'[h].aiSent[i].id[1] = h
          /\ \A i \in 1..Len(sessions'[h].carrierSent) :
                /\ sessions'[h].carrierSent[i].payload[1] = h
                /\ sessions'[h].carrierSent[i].streamSid = PairSid[h]
          /\ sessions'[h].stream_sid \in {None, PairSid[h]}
          /\ PairStep(h) =>
                /\ \A g \in Handlers \ {h} :
                      /\ sessions'[g] = sessions[g]
                      /\ conversations'[PairSid[g]] = conversations[PairSid[g]]
                /\ \A i \in 1..Len(NewRows(dbTurns, dbTurns')) :
                      NewRows(dbTurns, dbTurns')[i].conversation_id = conversations[PairSid[h]].db_id
                /\ \A i \in 1..Len(NewRows(dbCalls, dbCalls')) :
                      /\ NewRows(dbCalls, dbCalls')[i].conversation_id = conversations[PairSid[h]].db_id
                      /\ NewRows(dbCalls, dbCalls')[i].call_id[1] = h]_vars

\* both handlers are past start, each has forwarded a frame of its own to its
\* AI socket, and each has a turn stored under its own conversation row
C28_Witness ==
    \A h \in Handlers :
        /\ conversations[PairSid[h]].present
        /\ \E i \in 1..Len(sessions[h].aiSent) :
              sessions[h].aiSent[i].type = "input_audio_buffer.append"
        /\ \E i \in 1..Len(dbTurns) :
              dbTurns[i].conversation_id = conversations[PairSid[h]].db_id

\* C29: the transcript and export endpoints answer 404 when no conversation
\* with the id exists and no call of the store failed, and 500 only when a
\* call of the store failed.
C29_NotFoundIs404 ==
    \A i \in 1..Len(web.responses) :
        LET r == web.responses[i]
        IN r.endpoint \in {"transcript", "export"} =>
             /\ (r.id \notin web.stored /\ ~r.failed) => r.status = 404
             /\ r.status = 500 => r.failed

\* C30: when the insert into call_sessions fails while the incoming-call
\* webhook is handled, the response is the markup that apologises and hangs
\* up, not the Connect/Stream markup.
C30_FailureMarkup ==
    \A i \in 1..Len(web.responses) :
        LET r == web.responses[i]
        IN (r.endpoint \in {"incoming-call", "TwilioHandler"} /\ r.failed) =>
             r.markup = create_error_response

\* the request served last dispatched book_spa_slot and the store was called
BookDispatched ==
    /\ tool.last.via # None
    /\ tool.last.function_name = "book_spa_slot"
    /\ Len(tool.last.rpcs) > 0

\* C31: for every start_time HH:MM with 00 <= HH <= 23, book_spa_slot calls
\* the store with p_slot_start_time = HH:MM:00 and p_slot_end_time = the time
\* of day SESSION_DURATION_HOURS hours later, with the same minutes.
C31_EndTimeOfDay ==
    \A hour \in 0..23, minute \in Minutes :
        (BookDispatched /\ tool.last.start_time = HHMM(hour, minute)) =>
            /\ tool.last.rpcs[1].p_slot_start_time = HHMMSS(hour, minute)
            /\ tool.last.rpcs[1].p_slot_end_time = HHMMSS(EndHourWrapped(hour), minute)

\* C32: POST /api/function-handler dispatches the body's function_name and
\* arguments with the caller phone of the body's context: every RPC of a
\* phone-bound tool carries context.customer_phone (so that two requests that
\* differ only in it reach the store with different phones), and the
\* response is the dispatcher's result.
C32_PhoneFromContext ==
    (tool.last.via = "rest" /\ tool.last.function_name # None) =>
        /\ tool.last.response =
              [status |-> 200, error |-> tool.last.result.error, flag |-> tool.last.result.flag]
        /\ \A i \in 1..Len(tool.last.rpcs) :
              tool.last.rpcs[i].rpc \in PhoneBoundTools =>
                  tool.last.rpcs[i].phone = tool.last.context_phone

\* the text gives an hour and a minute: two numbers separated by a colon
ReadsAsTime(text) ==
    /\ text # NoText
    /\ Len(split(text)) >= 2
    /\ IsNumber(split(text)[1]) /\ IsNumber(split(text)[2])

\* C36: book_spa_slot does not reach the store with substituted values:
\* either no store call is made and the result is an error, or the start time
\* given is a time and the p_slot_end_time sent is that time plus
\* SESSION_DURATION_HOURS (with the hour taken as the sum or as the hour of
\* the day).
C36_NoSubstitutedValues ==
    (tool.last.via # None /\ tool.last.function_name = "book_spa_slot") =>
        \/ Len(tool.last.rpcs) = 0 /\ tool.last.result.error # None
        \/ /\ Len(tool.last.rpcs) = 1
           /\ ReadsAsTime(tool.last.start_time)
           /\ LET hour == int(split(tool.last.start_time)[1])
                  minute == int(split(tool.last.start_time)[2])
              IN tool.last.rpcs[1].p_slot_end_time
                    \in {HHMMSS(EndHour(hour), minute), HHMMSS(EndHourWrapped(hour), minute)}

\* C33: for a call_sid started with start_session, log_user_input and
\* log_assistant_response each append exactly one turn, log_tool_call appends
\* exactly one tool call, at the end of the list (the order of the calls);
\* end_session sets end_time, duration and final_status and leaves the turns
\* and the tool calls as they are.
C33_LogCallsAppendInOrder ==
    [][\A c \in CallIds :
          LET before == call_log.sessions[c]
              after == call_log'.sessions[c]
          IN before.present =>
               /\ LogUserInput(c) =>
                    /\ after.conversation_turns =
                          Append(before.conversation_turns, ConversationTurn("user", Now))
                    /\ after.tool_calls = before.tool_calls
               /\ LogAssistantResponse(c) =>
                    /\ after.conversation_turns =
                          Append(before.conversation_turns, ConversationTurn("assistant", Now))
                    /\ after.tool_calls = before.tool_calls
               /\ LogToolCall(c) =>
                    /\ after.tool_calls = Append(before.tool_calls, ToolCall("book_spa_slot", Now))
                    /\ after.conversation_turns = before.conversation_turns
               /\ LogEndSession(c) =>
                    /\ after.end_time = Now
                    /\ after.duration = Now - before.start_time
                    /\ after.final_status \in {"completed", "failed"}
                    /\ after.conversation_turns = before.conversation_turns
                    /\ after.tool_calls = before.tool_calls]_vars

\* a session with a user turn, an assistant turn and a tool call, in the order
\* of the calls, ended after them
C33_Witness ==
    \E c \in CallIds :
        LET session == call_log.sessions[c]
        IN /\ session.present
           /\ Len(session.conversation_turns) = 2
           /\ session.conversation_turns[1].speaker = "user"
           /\ session.conversation_turns[2].speaker = "assistant"
           /\ session.conversation_turns[1].text < session.conversation_turns[2].text
           /\ Len(session.tool_calls) = 1
           /\ session.end_time > session.tool_calls[1].timestamp
           /\ session.final_status = "completed"

\* C38: once end_session has run for a call_sid, the session's end_time,
\* duration, turns and tool calls are the same after every later call of the
\* logger; and a log call for a call_sid that was never started creates no
\* session.
C38_EndedSessionFrozen ==
    [][\A c \in CallIds :
          LET before == call_log.sessions[c]
              after == call_log'.sessions[c]
          IN /\ (before.present /\ before.end_time # NoTime) =>
                  /\ after.end_time = before.end_time
                  /\ after.duration = before.duration
                  /\ after.conversation_turns = before.conversation_turns
                  /\ after.tool_calls = before.tool_calls
             /\ (~before.present
                   /\ (LogUserInput(c) \/ LogAssistantResponse(c) \/ LogToolCall(c))) =>
                  ~after.present]_vars

\* C39: in the markup returned for an incoming call the welcome <Say>, when
\* there is one, comes before the <Connect> verb.
C39_SayBeforeConnect ==
    \A i \in 1..Len(web.responses) :
        LET r == web.responses[i]
        IN r.endpoint \in {"incoming-call", "TwilioHandler"} =>
             \A say \in 1..Len(r.markup), connect \in 1..Len(r.markup) :
                 (r.markup[say] = "Say" /\ r.markup[connect] = "Connect") => say < connect

\* C37: a book_spa_slot that succeeds sets booking_id only on the
\* call_sessions row of the call that made the booking: the rows of every
\* other call are left as they were.
C37_OnlyOwnRowLinked ==
    [][\A c \in CallIds :
          CallBook(c) =>
              \A other \in CallIds \ {c} :
                  tool'.call_sessions[other] = tool.call_sessions[other]]_vars

\* C34: on the AI socket nothing is sent between a function_call_output and
\* its response.create: the event that follows a function_call_output is the
\* response.create of the same call.
C34_OutputThenCreate ==
    \A i \in 1..(Len(aiSent) - 1) :
        aiSent[i].type = "function_call_output" =>
            aiSent[i + 1] = Msg("response.create", aiSent[i].id)

\* C35: once ended_at has been written, no turn and no tool invocation is
\* added: the conversation is no longer in the logger, add_turn and
\* add_function_call leave the tables and the logger as they are, and ended_at
\* is not written again.
C35_NothingAfterEnd ==
    [][dbEnded > 0 =>
          /\ stream_sid # None /\ ~conversations[stream_sid].present
          /\ dbTurns' = dbTurns
          /\ dbCalls' = dbCalls
          /\ dbEnded' = dbEnded
          /\ conversations' = conversations]_vars

\* after the carrier's stop wrote ended_at, a transcript with text was read
\* and a tool call was dispatched and answered, and no row was stored for them
C35_Witness ==
    /\ dbEnded = 1
    /\ hist.turnAfterEnd
    /\ Answered(1)
    /\ dbTurns = << >> /\ dbCalls = << >>

====
